---- MODULE Spec2Model ----
(***************************************************************************)
(* A model of debaker.py (CoalescedTool): the unpack of a Coalesced        *)
(* archive into INI-like text documents and the repack of such documents   *)
(* into an archive.                                                        *)
(*                                                                         *)
(* Text is a sequence of Unicode code points (a Python str), a file's      *)
(* content and the archive are sequences of bytes 0..255 or of code        *)
(* points.  A path of the output directory is read as os.path reads it on  *)
(* the platform whose separator the code normalises to (the backslash).    *)
(***************************************************************************)
EXTENDS Integers, Sequences, FiniteSets, TLC

----------------------------------------------------------------------------
(* Characters the model's inputs are built from, by code point. *)
Ch == [a |-> 97, b |-> 98, k |-> 107, v |-> 118, S |-> 83, T |-> 84,
       eq |-> 61, lb |-> 91, rb |-> 93, nl |-> 10, cr |-> 13, dot |-> 46,
       sl |-> 47, bs |-> 92, pil |-> 182, nul |-> 0, sp |-> 32,
       astral |-> 128512]

Min(x, y) == IF x < y THEN x ELSE y

(* s[n:] *)
Drop(s, n) == SubSeq(s, n + 1, Len(s))

StartsWith(s, p) == Len(s) >= Len(p) /\ SubSeq(s, 1, Len(p)) = p

RECURSIVE IndexOf(_, _, _)
(* The first index >= i of character c in s, 0 when there is none. *)
IndexOf(s, c, i) ==
    IF i > Len(s) THEN 0
    ELSE IF s[i] = c THEN i
    ELSE IndexOf(s, c, i + 1)

RECURSIVE Replace(_, _, _)
(* str.replace(old, new) for single characters. *)
Replace(s, old, new) ==
    IF s = << >> THEN << >>
    ELSE <<IF s[1] = old THEN new ELSE s[1]>> \o Replace(Tail(s), old, new)

RECURSIVE LStrip(_, _)
(* str.lstrip(chars) *)
LStrip(s, chars) ==
    IF s # << >> /\ s[1] \in chars THEN LStrip(Tail(s), chars) ELSE s

RECURSIVE RStrip(_, _)
(* str.rstrip(chars) *)
RStrip(s, chars) ==
    IF s # << >> /\ s[Len(s)] \in chars
    THEN RStrip(SubSeq(s, 1, Len(s) - 1), chars)
    ELSE s

----------------------------------------------------------------------------
(* struct.pack(">i", n) and struct.unpack(">i", data): a signed 32-bit     *)
(* big-endian integer.                                                     *)
PackInt(n) ==
    LET m == IF n < 0 THEN (n + 2147483647) + 1 ELSE n
        hi == m \div 16777216
    IN  <<IF n < 0 THEN hi + 128 ELSE hi,
          (m \div 65536) % 256, (m \div 256) % 256, m % 256>>

UnpackInt(d) ==
    (IF d[1] >= 128 THEN d[1] - 256 ELSE d[1]) * 16777216
      + d[2] * 65536 + d[3] * 256 + d[4]

(* f.read(n) at offset pos: what is there, at most n bytes. *)
ReadBytes(data, pos, n) ==
    IF pos >= Len(data) \/ n <= 0 THEN << >>
    ELSE SubSeq(data, pos + 1, Min(pos + n, Len(data)))

(* read_int_be: ok = FALSE is the EOFError. *)
read_int_be(data, pos) ==
    LET d == ReadBytes(data, pos, 4)
    IN  IF Len(d) < 4
        THEN [ok |-> FALSE, val |-> 0, pos |-> pos + Len(d)]
        ELSE [ok |-> TRUE, val |-> UnpackInt(d), pos |-> pos + 4]

(* Python's integers are unbounded and those of TLC are 32 bits wide : a   *)
(* decoded length beyond LengthCap is kept as LengthCap, which is still    *)
(* more than any stream of the model holds, so every read is the same.     *)
LengthCap == 1000000000

(* read_name_length_be: a count of bytes. *)
read_name_length_be(data, pos) ==
    LET r == read_int_be(data, pos)
    IN  IF r.ok /\ r.val < 0
        THEN [r EXCEPT !.val = IF r.val < -(LengthCap \div 2) THEN LengthCap
                                ELSE (-r.val - 1) * 2]
        ELSE [r EXCEPT !.val = Min(r.val, LengthCap)]

(* read_value_length_be: a count of 2-byte units. *)
read_value_length_be(data, pos) ==
    LET r == read_int_be(data, pos)
    IN  IF r.ok /\ r.val < 0
        THEN [r EXCEPT !.val = IF r.val < -LengthCap THEN LengthCap
                                ELSE -r.val - 1]
        ELSE [r EXCEPT !.val = Min(r.val, LengthCap)]

----------------------------------------------------------------------------
(* UTF-16LE. *)
IsHighSurrogate(u) == u >= 55296 /\ u <= 56319

IsLowSurrogate(u) == u >= 56320 /\ u <= 57343

(* str.encode("utf-16le") of one code point. *)
EncodeChar(c) ==
    IF c < 65536 THEN <<c % 256, c \div 256>>
    ELSE LET x == c - 65536
             h == 55296 + (x \div 1024)
             l == 56320 + (x % 1024)
         IN  <<h % 256, h \div 256, l % 256, l \div 256>>

RECURSIVE EncodeUtf16(_)
EncodeUtf16(s) ==
    IF s = << >> THEN << >> ELSE EncodeChar(s[1]) \o EncodeUtf16(Tail(s))

RECURSIVE DecodeUnits(_)
(* bytes.decode("utf-16le"), strict: ok = FALSE is the UnicodeDecodeError  *)
(* (an odd byte left over, a surrogate without its pair).                  *)
DecodeUnits(d) ==
    IF d = << >> THEN [ok |-> TRUE, text |-> << >>]
    ELSE IF Len(d) < 2 THEN [ok |-> FALSE, text |-> << >>]
    ELSE LET u == d[1] + 256 * d[2]
         IN  IF IsLowSurrogate(u) THEN [ok |-> FALSE, text |-> << >>]
             ELSE IF IsHighSurrogate(u)
             THEN IF Len(d) < 4 THEN [ok |-> FALSE, text |-> << >>]
                  ELSE LET w == d[3] + 256 * d[4]
                           r == DecodeUnits(Drop(d, 4))
                       IN  IF ~IsLowSurrogate(w) \/ ~r.ok
                           THEN [ok |-> FALSE, text |-> << >>]
                           ELSE [ok |-> TRUE,
                                 text |-> <<65536 + (u - 55296) * 1024
                                              + (w - 56320)>> \o r.text]
             ELSE LET r == DecodeUnits(Drop(d, 2))
                  IN  IF ~r.ok THEN r
                      ELSE [ok |-> TRUE, text |-> <<u>> \o r.text]

(* decode_name: UTF-16LE, else Latin-1 (one character per byte, total). *)
decode_name(name_bytes) ==
    LET r == DecodeUnits(name_bytes)
    IN  IF r.ok THEN r.text ELSE name_bytes

----------------------------------------------------------------------------
(* unpack's normalisation of an entry path. *)
DotDotBack == <<Ch.dot, Ch.dot, Ch.bs>>

DotDotSlash == <<Ch.dot, Ch.dot, Ch.sl>>

(* One pass of the while loop: split at the first separator, keep the rest. *)
StripLoopOnce(p) ==
    LET sep == IF IndexOf(p, Ch.bs, 1) # 0 THEN Ch.bs ELSE Ch.sl
        i == IndexOf(p, sep, 1)
    IN  IF i = 0 THEN << >> ELSE Drop(p, i)

(* The loop run as an "if": one prefix removed at most. *)
StripLeadingDotDot_Once(p) ==
    IF StartsWith(p, DotDotBack) \/ StartsWith(p, DotDotSlash)
    THEN StripLoopOnce(p)
    ELSE p

RECURSIVE StripLeadingDotDot(_)
(* while normalized_path.startswith("..\\") or ....startswith("../") *)
StripLeadingDotDot(p) ==
    IF StartsWith(p, DotDotBack) \/ StartsWith(p, DotDotSlash)
    THEN StripLeadingDotDot(StripLoopOnce(p))
    ELSE p

NormalizePath(fullpath) == StripLeadingDotDot(Replace(fullpath, Ch.sl, Ch.bs))

CleanPath(fullpath) == LStrip(NormalizePath(fullpath), {Ch.bs, Ch.sl})

----------------------------------------------------------------------------
(* os.path.join(output_dir, clean_path) and the file it names: the path's  *)
(* segments, and where they lead from the output directory.                *)
IsSep(c) == c = Ch.bs \/ c = Ch.sl

RECURSIVE SplitAt(_, _, _)
(* s split at every character of seps; cur is the piece being read. *)
SplitAt(s, seps, cur) ==
    IF s = << >> THEN <<cur>>
    ELSE IF s[1] \in seps THEN <<cur>> \o SplitAt(Tail(s), seps, << >>)
    ELSE SplitAt(Tail(s), seps, Append(cur, s[1]))

Segments(p) == SplitAt(p, {Ch.bs, Ch.sl}, << >>)

RECURSIVE Walk(_, _)
(* at = [up, segs]: up directories above the root, then down segs. *)
Walk(segs, at) ==
    IF segs = << >> THEN at
    ELSE LET s == segs[1]
         IN  IF s = << >> \/ s = <<Ch.dot>> THEN Walk(Tail(segs), at)
             ELSE IF s = <<Ch.dot, Ch.dot>>
             THEN IF at.segs = << >>
                  THEN Walk(Tail(segs), [at EXCEPT !.up = @ + 1])
                  ELSE Walk(Tail(segs),
                            [at EXCEPT !.segs = SubSeq(@, 1, Len(@) - 1)])
             ELSE Walk(Tail(segs), [at EXCEPT !.segs = Append(@, s)])

Resolve(p) == Walk(Segments(p), [up |-> 0, segs |-> << >>])

RECURSIVE ClimbsAbove(_, _)
(* Whether walking the segments ever stands above the root. *)
ClimbsAbove(segs, depth) ==
    IF segs = << >> THEN FALSE
    ELSE LET s == segs[1]
         IN  IF s = << >> \/ s = <<Ch.dot>> THEN ClimbsAbove(Tail(segs), depth)
             ELSE IF s = <<Ch.dot, Ch.dot>>
             THEN depth = 0 \/ ClimbsAbove(Tail(segs), depth - 1)
             ELSE ClimbsAbove(Tail(segs), depth + 1)

IsProperPrefix(x, y) == Len(x) < Len(y) /\ SubSeq(y, 1, Len(x)) = x

(* Whether os.makedirs of the parent and open(path, "w") succeed in the    *)
(* tree d (a function from resolved places to contents).                   *)
CanOpenForWrite(d, p) ==
    LET segs == Segments(p)
        last == segs[Len(segs)]
        at == Resolve(p)
    IN  /\ IndexOf(p, Ch.nul, 1) = 0
        /\ last # << >> /\ last # <<Ch.dot>> /\ last # <<Ch.dot, Ch.dot>>
        /\ at.segs # << >>
        /\ \A f \in DOMAIN d :
              f.up = at.up =>
                 /\ ~IsProperPrefix(f.segs, at.segs)
                 /\ ~IsProperPrefix(at.segs, f.segs)

----------------------------------------------------------------------------
(* The text documents. *)
RECURSIVE UniversalNewlines(_)
(* open(path, "r"): "\r\n" and "\r" are read as "\n". *)
UniversalNewlines(t) ==
    IF t = << >> THEN << >>
    ELSE IF t[1] = Ch.cr
    THEN IF Len(t) >= 2 /\ t[2] = Ch.nl
         THEN <<Ch.nl>> \o UniversalNewlines(Drop(t, 2))
         ELSE <<Ch.nl>> \o UniversalNewlines(Tail(t))
    ELSE <<t[1]>> \o UniversalNewlines(Tail(t))

RECURSIVE Lines(_)
(* for line in ini_f: the lines, each without its "\n". *)
Lines(t) ==
    IF t = << >> THEN << >>
    ELSE LET i == IndexOf(t, Ch.nl, 1)
         IN  IF i = 0 THEN <<t>>
             ELSE <<SubSeq(t, 1, i - 1)>> \o Lines(Drop(t, i))

RECURSIVE ParseLines(_, _, _, _)
(* repack's parse: sections so far, the open section (has = FALSE: none   *)
(* yet) and its records.                                                   *)
ParseLines(ls, sections, cur, recs) ==
    IF ls = << >>
    THEN IF cur.has
         THEN Append(sections, [name |-> cur.name, records |-> recs])
         ELSE sections
    ELSE LET line == RStrip(RStrip(ls[1], {Ch.nl}), {Ch.cr})
             e == IndexOf(line, Ch.eq, 1)
         IN  IF line # << >> /\ line[1] = Ch.lb /\ line[Len(line)] = Ch.rb
             THEN ParseLines(Tail(ls),
                     IF cur.has
                     THEN Append(sections,
                                 [name |-> cur.name, records |-> recs])
                     ELSE sections,
                     [has |-> TRUE, name |-> SubSeq(line, 2, Len(line) - 1)],
                     IF cur.has THEN << >> ELSE recs)
             ELSE IF e # 0
             THEN ParseLines(Tail(ls), sections, cur,
                     Append(recs,
                        [key |-> SubSeq(line, 1, e - 1),
                         value |-> Replace(Drop(line, e), Ch.pil, Ch.nl)]))
             ELSE ParseLines(Tail(ls), sections, cur, recs)

ParseIni(content) ==
    ParseLines(Lines(UniversalNewlines(content)), << >>,
               [has |-> FALSE, name |-> << >>], << >>)

----------------------------------------------------------------------------
(* The program's state. *)
VARIABLES
    bin,          \* the archive file on disk: a sequence of bytes
    dir,          \* the document tree: resolved place -> text written
    cmd,          \* the command of the current or next invocation
    pc,           \* where the invocation stands
    tool,         \* CoalescedTool's fields
    validated,    \* validate_coalesced's verdict and the offset it read to
    pos,          \* f.tell() of the archive being unpacked
    file_index, sec_index, rec_index,   \* unpack's loop counters
    clean_path,   \* unpack's clean_path of the entry being written
    out_file,     \* the resolved place of the open output document
    input_files,  \* repack's list of documents, in os.walk order
    rp_index,     \* repack's position in input_files
    run,          \* what this invocation did so far (observations)
    hist          \* the finished invocations, in order

vars == <<bin, dir, cmd, pc, tool, validated, pos, file_index, sec_index,
          rec_index, clean_path, out_file, input_files, rp_index, run, hist>>

EmptyDir == [f \in {} |-> << >>]

NoPlace == [up |-> 0, segs |-> << >>]

(* __init__ *)
NewTool == [files |-> 0, nmlen |-> 0, secCount |-> 0, recCount |-> 0,
            valueLength |-> 0, fullpath |-> << >>]

NotValidated == [verdict |-> "none", pos |-> 0]

(* What an invocation has done so far: short = a read returned fewer      *)
(* bytes than asked for or a skip went past the end; zero_name = a name    *)
(* length field decoded to 0; completed = the places of the documents of   *)
(* the entries finished; entry_dir = the tree when the current entry       *)
(* began; order, trees = the documents repack walked and what it parsed    *)
(* from each.                                                              *)
NewRun == [short |-> FALSE, zero_name |-> FALSE, completed |-> << >>,
           entry_dir |-> EmptyDir, order |-> << >>, trees |-> << >>]

WriteTo(d, place, text) ==
    [f \in DOMAIN d \cup {place} |->
        IF f = place
        THEN (IF place \in DOMAIN d THEN d[place] ELSE << >>) \o text
        ELSE d[f]]

Truncate(d, place) ==
    [f \in DOMAIN d \cup {place} |-> IF f = place THEN << >> ELSE d[f]]

----------------------------------------------------------------------------
(* Bounds of the model. *)
MaxOps == 3       \* invocations in a row: unpack, repack, unpack, ...

MaxK == 2         \* leading "..\" or "../" segments of a generated path

MaxRecs == 2      \* records of a generated section

----------------------------------------------------------------------------
(* The end of an invocation: its outcome joins hist, and after a success   *)
(* the opposite command may be run on what it produced.                    *)
Finish(op, status, e, b, d, r, t, vd) ==
    /\ hist' = Append(hist, [op |-> op, status |-> status, err |-> e,
                             bin |-> b, dir |-> d, run |-> r,
                             validated |-> vd, tool |-> t])
    /\ pc' = IF status = "done" /\ Len(hist) + 1 < MaxOps
             THEN "idle" ELSE "halt"
    /\ cmd' = IF op = "unpack" THEN "repack" ELSE "unpack"

----------------------------------------------------------------------------
(* A step of unpack or of validate_coalesced is a run of reads, each       *)
(* acting on the reading's state s: the stream and f.tell(), the tool's    *)
(* fields, the last length, bytes and text read, the text written to the   *)
(* open document (text), and how the step stands: "ok", "returned" or the  *)
(* exception raised, after which nothing more is done.                     *)
Reading(data, p, t) ==
    [data |-> data, pos |-> p, tool |-> t, status |-> "ok", len |-> 0,
     bytes |-> << >>, name |-> << >>, clean |-> << >>, text |-> << >>,
     short |-> FALSE, zero |-> FALSE]

GotLength(s, r) ==
    IF s.status # "ok" THEN s
    ELSE IF ~r.ok
    THEN [s EXCEPT !.status = "EOFError", !.pos = r.pos, !.short = TRUE]
    ELSE [s EXCEPT !.pos = r.pos, !.len = r.val]

(* self.read_int_be(f) *)
ReadInt(s) == GotLength(s, read_int_be(s.data, s.pos))

(* self.read_name_length_be(f) *)
ReadNameLength(s) == GotLength(s, read_name_length_be(s.data, s.pos))

(* self.read_value_length_be(f) *)
ReadValueLength(s) == GotLength(s, read_value_length_be(s.data, s.pos))

GotBytes(s, nb) ==
    [s EXCEPT !.bytes = nb, !.pos = @ + Len(nb),
              !.short = @ \/ Len(nb) < s.len, !.zero = @ \/ s.len = 0]

(* f.read(length) *)
ReadName(s) ==
    IF s.status # "ok" THEN s
    ELSE GotBytes(s, ReadBytes(s.data, s.pos, s.len))

(* f.seek(2, os.SEEK_CUR) *)
SkipTerminator(s) ==
    IF s.status # "ok" THEN s
    ELSE [s EXCEPT !.pos = @ + 2, !.short = @ \/ s.pos + 2 > Len(s.data)]

Decoded(s, dn) ==
    IF ~dn.ok THEN [s EXCEPT !.status = "UnicodeDecodeError"]
    ELSE [s EXCEPT !.name = dn.text]

(* name_bytes.decode("utf-16le") *)
DecodeStrict(s) ==
    IF s.status # "ok" THEN s ELSE Decoded(s, DecodeUnits(s.bytes))

(* self.fullpath = self.decode_name(...) *)
DecodeFullpath(s) ==
    IF s.status # "ok" THEN s
    ELSE [s EXCEPT !.tool.fullpath = decode_name(s.bytes)]

(* out_file.write(text) *)
Write(s, text) ==
    IF s.status # "ok" THEN s ELSE [s EXCEPT !.text = @ \o text]

SetFiles(s) ==
    IF s.status # "ok" THEN s ELSE [s EXCEPT !.tool.files = s.len]

SetNmlen(s) ==
    IF s.status # "ok" THEN s ELSE [s EXCEPT !.tool.nmlen = s.len]

SetSecCount(s) ==
    IF s.status # "ok" THEN s ELSE [s EXCEPT !.tool.secCount = s.len]

SetRecCount(s) ==
    IF s.status # "ok" THEN s ELSE [s EXCEPT !.tool.recCount = s.len]

SetValueLength(s) ==
    IF s.status # "ok" THEN s ELSE [s EXCEPT !.tool.valueLength = s.len]

----------------------------------------------------------------------------
(* validate_coalesced, lines 57-72: every exception is caught and is a     *)
(* False; so is a count of 0 or above 10000, looked at after the first     *)
(* entry's name was read.                                                  *)
CountVerdict(s) ==
    IF s.status # "ok" THEN s
    ELSE IF s.tool.files = 0 \/ s.tool.files > 10000
    THEN [s EXCEPT !.status = "rejected"]
    ELSE s

validate_coalesced(data) ==
    CountVerdict(DecodeFullpath(ReadName(SetNmlen(ReadNameLength(
        SetFiles(ReadInt(Reading(data, 0, NewTool))))))))

(* main's unpack branch up to the verdict, lines 243-251. *)
Validate ==
    /\ pc = "idle" /\ cmd = "unpack"
    /\ \E v \in {validate_coalesced(bin)} :
          /\ tool' = v.tool
          /\ validated' = [verdict |-> IF v.status = "ok" THEN "accepted"
                                       ELSE "rejected",
                           pos |-> v.pos]
          /\ run' = NewRun
          /\ IF v.status = "ok"
             THEN /\ pc' = "unpack"
                  /\ UNCHANGED <<hist, cmd>>
             ELSE Finish("unpack", "invalid", "none", bin, dir, NewRun,
                         v.tool, [verdict |-> "rejected", pos |-> v.pos])
    /\ UNCHANGED <<bin, dir, pos, file_index, sec_index, rec_index,
                   clean_path, out_file, input_files, rp_index>>

Observed(r, s) ==
    [r EXCEPT !.short = @ \/ s.short, !.zero_name = @ \/ s.zero]

(* unpack, lines 74-87: the output folder, the archive, the entry count. *)
UnpackBegin ==
    /\ pc = "unpack"
    /\ \E s \in {SetFiles(ReadInt(Reading(bin, 0, tool)))} :
          /\ pos' = s.pos
          /\ tool' = s.tool
          /\ run' = Observed(run, s)
          /\ IF s.status = "ok"
             THEN /\ pc' = "entry"
                  /\ UNCHANGED <<hist, cmd>>
             ELSE Finish("unpack", "failed", s.status, bin, dir,
                         Observed(run, s), s.tool, validated)
    /\ file_index' = 0
    /\ UNCHANGED <<bin, dir, validated, sec_index, rec_index, clean_path,
                   out_file, input_files, rp_index>>

(* unpack, lines 91-93: print "File name error" and return. *)
CheckNmlen(s) ==
    IF s.status # "ok" THEN s
    ELSE IF s.tool.nmlen < 1
    THEN [s EXCEPT !.status = "returned", !.zero = TRUE]
    ELSE s

(* unpack, lines 100-112 *)
Normalize(s) ==
    IF s.status # "ok" THEN s
    ELSE [s EXCEPT !.clean = CleanPath(s.tool.fullpath)]

(* unpack, lines 113-116: the parent folders and the document, opened.     *)
OpenDocument(s, d) ==
    IF s.status # "ok" THEN s
    ELSE IF ~CanOpenForWrite(d, s.clean) THEN [s EXCEPT !.status = "OSError"]
    ELSE s

(* unpack, lines 90-116: an entry's header, up to its open document. *)
EntryStep(s, d) ==
    OpenDocument(Normalize(SetSecCount(ReadInt(SkipTerminator(DecodeFullpath(
        ReadName(CheckNmlen(SetNmlen(ReadNameLength(s))))))))), d)

UnpackEntry ==
    /\ pc = "entry" /\ file_index < tool.files
    /\ \E e \in {EntryStep(Reading(bin, pos, tool), dir)} :
       \E place \in {Resolve(e.clean)} :
          /\ pos' = e.pos
          /\ tool' = e.tool
          /\ run' = [Observed(run, e) EXCEPT !.entry_dir = dir]
          /\ IF e.status = "ok"
             THEN /\ dir' = Truncate(dir, place)
                  /\ clean_path' = e.clean
                  /\ out_file' = place
                  /\ pc' = "section"
                  /\ sec_index' = 0
                  /\ UNCHANGED <<hist, cmd>>
             ELSE /\ UNCHANGED <<dir, out_file, sec_index>>
                  /\ clean_path' = IF e.status = "OSError" THEN e.clean
                                   ELSE clean_path
                  /\ Finish("unpack",
                            IF e.status = "returned" THEN "returned"
                            ELSE "failed",
                            IF e.status = "returned" THEN "none"
                            ELSE e.status,
                            bin, dir,
                            [Observed(run, e) EXCEPT !.entry_dir = dir],
                            e.tool, validated)
    /\ UNCHANGED <<bin, validated, file_index, rec_index, input_files,
                   rp_index>>

(* out_file.write(f"[{section_name}]\n") *)
WriteHeader(s) == Write(s, <<Ch.lb>> \o s.name \o <<Ch.rb, Ch.nl>>)

(* unpack, lines 118-125: a section's header and record count. *)
SectionStep(s) ==
    SetRecCount(ReadInt(WriteHeader(SkipTerminator(DecodeStrict(
        ReadName(ReadNameLength(s)))))))

UnpackSection ==
    /\ pc = "section" /\ sec_index < tool.secCount
    /\ \E s \in {SectionStep(Reading(bin, pos, tool))} :
       \E d \in {WriteTo(dir, out_file, s.text)} :
          /\ pos' = s.pos
          /\ tool' = s.tool
          /\ run' = Observed(run, s)
          /\ dir' = d
          /\ IF s.status = "ok"
             THEN /\ pc' = "record"
                  /\ UNCHANGED <<hist, cmd>>
             ELSE Finish("unpack", "failed", s.status, bin, d,
                         Observed(run, s), s.tool, validated)
    /\ rec_index' = 0
    /\ UNCHANGED <<bin, validated, file_index, sec_index, clean_path,
                   out_file, input_files, rp_index>>

(* One 2-byte read of a value: the newline unit is the pilcrow, any other  *)
(* is decoded alone.                                                       *)
UnitText(cb, dc) ==
    IF cb = <<Ch.nl, 0>> THEN [ok |-> TRUE, text |-> <<Ch.pil>>] ELSE dc

RECURSIVE ReadValueUnits(_, _, _)
(* unpack, lines 138-143: n reads of 2 bytes.  At the end of the stream    *)
(* every further read is empty and adds nothing, whatever n is.            *)
ReadValueUnits(data, p, n) ==
    IF n = 0 \/ p >= Len(data)
    THEN [ok |-> TRUE, chars |-> << >>, pos |-> p, short |-> n > 0]
    ELSE \* char_bytes = f.read(2)
         LET c == UnitText(ReadBytes(data, p, 2),
                           DecodeUnits(ReadBytes(data, p, 2)))
         IN  IF ~c.ok
             THEN [ok |-> FALSE, chars |-> << >>,
                   pos |-> Min(p + 2, Len(data)), short |-> p + 2 > Len(data)]
             ELSE [ReadValueUnits(data, p + 2, n - 1)
                      EXCEPT !.chars = c.text \o @]

GotValue(s, uv) ==
    IF ~uv.ok
    THEN [s EXCEPT !.status = "UnicodeDecodeError", !.pos = uv.pos,
                   !.short = @ \/ uv.short]
    ELSE Write(SkipTerminator([s EXCEPT !.pos = uv.pos,
                                        !.short = @ \/ uv.short]),
               RStrip(uv.chars, {Ch.cr, Ch.nl}))

(* unpack, lines 136-146: the value, when its length is positive. *)
ReadValue(s) ==
    IF s.status # "ok" \/ s.tool.valueLength <= 0 THEN s
    ELSE GotValue(s, ReadValueUnits(s.data, s.pos, s.tool.valueLength))

(* out_file.write(f"{key_name}=") *)
WriteKey(s) == Write(s, s.name \o <<Ch.eq>>)

(* unpack, lines 128-148: one record. *)
RecordStep(s) ==
    Write(ReadValue(SetValueLength(ReadValueLength(WriteKey(SkipTerminator(
        DecodeStrict(ReadName(ReadNameLength(s)))))))), <<Ch.nl>>)

UnpackRecord ==
    /\ pc = "record" /\ rec_index < tool.recCount
    /\ \E s \in {RecordStep(Reading(bin, pos, tool))} :
       \E d \in {WriteTo(dir, out_file, s.text)} :
          /\ pos' = s.pos
          /\ tool' = s.tool
          /\ run' = Observed(run, s)
          /\ dir' = d
          /\ IF s.status = "ok"
             THEN /\ rec_index' = rec_index + 1
                  /\ UNCHANGED <<pc, hist, cmd>>
             ELSE /\ UNCHANGED rec_index
                  /\ Finish("unpack", "failed", s.status, bin, d,
                            Observed(run, s), s.tool, validated)
    /\ UNCHANGED <<bin, validated, file_index, sec_index, clean_path,
                   out_file, input_files, rp_index>>

(* unpack, lines 150-151: the blank line between two sections. *)
UnpackSectionEnd ==
    /\ pc = "record" /\ rec_index >= tool.recCount
    /\ dir' = IF sec_index # tool.secCount - 1
              THEN WriteTo(dir, out_file, <<Ch.nl>>)
              ELSE dir
    /\ sec_index' = sec_index + 1
    /\ pc' = "section"
    /\ UNCHANGED <<bin, cmd, tool, validated, pos, file_index, rec_index,
                   clean_path, out_file, input_files, rp_index, run, hist>>

(* The end of the with block of line 116: the document is closed. *)
UnpackEntryEnd ==
    /\ pc = "section" /\ sec_index >= tool.secCount
    /\ run' = [run EXCEPT !.completed = Append(@, out_file)]
    /\ file_index' = file_index + 1
    /\ pc' = "entry"
    /\ UNCHANGED <<bin, dir, cmd, tool, validated, pos, sec_index, rec_index,
                   clean_path, out_file, input_files, rp_index, hist>>

(* The entry loop is over: unpack returns. *)
UnpackEnd ==
    /\ pc = "entry" /\ file_index >= tool.files
    /\ Finish("unpack", "done", "none", bin, dir, run, tool, validated)
    /\ UNCHANGED <<bin, dir, tool, validated, pos, file_index, sec_index,
                   rec_index, clean_path, out_file, input_files, rp_index,
                   run>>

----------------------------------------------------------------------------
(* repack *)
Perms(S) ==
    {o \in [1..Cardinality(S) -> S] :
        \A i, j \in 1..Cardinality(S) : i # j => o[i] # o[j]}

DirOf(f) == SubSeq(f.segs, 1, Len(f.segs) - 1)

(* os.walk(input_dir), top down: a folder's files come together and       *)
(* before those of the folders below it; the order within a folder is the  *)
(* file system's.                                                          *)
WalkOrders(d) ==
    LET inside == {f \in DOMAIN d : f.up = 0}
        n == Cardinality(inside)
    IN  {o \in Perms(inside) :
            /\ \A i, j \in 1..n :
                  i < j => ~IsProperPrefix(DirOf(o[j]), DirOf(o[i]))
            /\ \A i, j, l \in 1..n :
                  (i < j /\ j < l /\ DirOf(o[i]) = DirOf(o[l]))
                     => DirOf(o[j]) = DirOf(o[i])}

RECURSIVE JoinPath(_)
(* os.path.relpath of a file of the tree: its segments and separators. *)
JoinPath(segs) ==
    IF Len(segs) = 1 THEN segs[1]
    ELSE segs[1] \o <<Ch.bs>> \o JoinPath(Tail(segs))

(* struct.pack(">i", -(len(text) + 1)), the text in UTF-16LE, two zeros. *)
WriteText(text) ==
    PackInt(-(Len(text) + 1)) \o EncodeUtf16(text) \o <<0, 0>>

RECURSIVE WriteRecords(_)
WriteRecords(recs) ==
    IF recs = << >> THEN << >>
    ELSE WriteText(recs[1].key) \o WriteText(recs[1].value)
           \o WriteRecords(Tail(recs))

RECURSIVE WriteSections(_)
WriteSections(secs) ==
    IF secs = << >> THEN << >>
    ELSE WriteText(secs[1].name) \o PackInt(Len(secs[1].records))
           \o WriteRecords(secs[1].records) \o WriteSections(Tail(secs))

BinPath(rel_path) == <<Ch.dot, Ch.dot, Ch.bs, Ch.dot, Ch.dot, Ch.bs>>
                        \o Replace(rel_path, Ch.sl, Ch.bs)

(* repack, lines 153-171: the walk, the output file, the file count. *)
RepackBegin ==
    /\ pc = "idle" /\ cmd = "repack"
    /\ \E o \in WalkOrders(dir) :
          /\ input_files' = o
          /\ tool' = [NewTool EXCEPT !.files = Len(o)]
          /\ bin' = PackInt(Len(o))
          /\ run' = [NewRun EXCEPT !.order = o]
    /\ rp_index' = 0
    /\ validated' = NotValidated
    /\ pc' = "repack_file"
    /\ UNCHANGED <<dir, cmd, pos, file_index, sec_index, rec_index,
                   clean_path, out_file, hist>>

(* repack, lines 173-227: one document. *)
RepackFile ==
    /\ pc = "repack_file" /\ rp_index < Len(input_files)
    /\ \E f \in {input_files[rp_index + 1]} :
       \E bin_path \in {BinPath(JoinPath(f.segs))} :
       \E sections \in {ParseIni(dir[f])} :
          /\ bin' = bin \o WriteText(bin_path) \o PackInt(Len(sections))
                        \o WriteSections(sections)
          /\ run' = [run EXCEPT !.trees = Append(@,
                        [path |-> bin_path, sections |-> sections])]
    /\ rp_index' = rp_index + 1
    /\ UNCHANGED <<dir, cmd, pc, tool, validated, pos, file_index, sec_index,
                   rec_index, clean_path, out_file, input_files, hist>>

RepackEnd ==
    /\ pc = "repack_file" /\ rp_index >= Len(input_files)
    /\ Finish("repack", "done", "none", bin, dir, run, tool, validated)
    /\ UNCHANGED <<bin, dir, tool, validated, pos, file_index, sec_index,
                   rec_index, clean_path, out_file, input_files, rp_index,
                   run>>

----------------------------------------------------------------------------
(* The inputs: archives as another tool may have written them (either      *)
(* length style per file, no terminator after an empty value, which is     *)
(* the layout unpack reads), archives cut short or malformed, and trees    *)
(* of documents as an editor may have left them.                           *)
tA == <<Ch.a>>

tB == <<Ch.b>>

tK == <<Ch.k>>

tS == <<Ch.S>>

tT == <<Ch.T>>

tV == <<Ch.v>>

Units(text) == Len(EncodeUtf16(text)) \div 2

BuildName(text, style) ==
    (IF style = "neg" THEN PackInt(-(Units(text) + 1))
     ELSE PackInt(2 * Units(text)))
      \o EncodeUtf16(text) \o <<0, 0>>

BuildValue(text, style) ==
    (IF style = "neg" THEN PackInt(-(Units(text) + 1))
     ELSE PackInt(Units(text)))
      \o EncodeUtf16(text) \o (IF text = << >> THEN << >> ELSE <<0, 0>>)

RECURSIVE BuildRecords(_, _)
BuildRecords(recs, style) ==
    IF recs = << >> THEN << >>
    ELSE BuildName(recs[1].key, style) \o BuildValue(recs[1].value, style)
           \o BuildRecords(Tail(recs), style)

RECURSIVE BuildSections(_, _)
BuildSections(secs, style) ==
    IF secs = << >> THEN << >>
    ELSE BuildName(secs[1].name, style) \o PackInt(Len(secs[1].records))
           \o BuildRecords(secs[1].records, style)
           \o BuildSections(Tail(secs), style)

RECURSIVE BuildEntries(_, _)
BuildEntries(es, style) ==
    IF es = << >> THEN << >>
    ELSE BuildName(es[1].path, style) \o PackInt(Len(es[1].sections))
           \o BuildSections(es[1].sections, style)
           \o BuildEntries(Tail(es), style)

BuildArchive(count, es, style) == PackInt(count) \o BuildEntries(es, style)

Rec(key, value) == [key |-> key, value |-> value]

Sec(name, recs) == [name |-> name, records |-> recs]

Ent(path, secs) == [path |-> path, sections |-> secs]

(* Entry paths: k leading "..\" or "../" segments before a relative path,  *)
(* and paths with a separator or a ".." elsewhere.                         *)
RECURSIVE Prefixes(_)
Prefixes(n) ==
    IF n = 0 THEN {<< >>}
    ELSE {p \o q : p \in {DotDotBack, DotDotSlash}, q \in Prefixes(n - 1)}

AllPrefixes == UNION {Prefixes(n) : n \in 0..MaxK}

RelPaths == {tA, <<Ch.a, Ch.bs, Ch.b>>, <<Ch.a, Ch.sl, Ch.b>>,
             <<Ch.dot, Ch.dot, Ch.a>>, <<Ch.dot, Ch.bs, Ch.a>>,
             <<Ch.a, Ch.sl, Ch.dot, Ch.dot, Ch.bs, Ch.b>>}

OtherPaths == {<<Ch.bs, Ch.dot, Ch.dot, Ch.bs, Ch.a>>,
               <<Ch.sl, Ch.dot, Ch.dot, Ch.sl, Ch.a>>,
               <<Ch.a, Ch.bs, Ch.dot, Ch.dot, Ch.bs, Ch.dot, Ch.dot, Ch.bs,
                 Ch.b>>,
               <<Ch.dot, Ch.dot>>, <<Ch.bs, Ch.a>>, DotDotBack,
               <<Ch.dot, Ch.dot, Ch.bs, Ch.bs, Ch.a>>}

PathArchives ==
    {BuildArchive(1, <<Ent(p \o r, << >>)>>, "neg") :
        p \in AllPrefixes, r \in RelPaths}
    \cup {BuildArchive(1, <<Ent(p, << >>)>>, "neg") : p \in OtherPaths}

(* Values on the wire: empty, plain, an embedded newline, a trailing       *)
(* carriage return, a character outside the basic plane.                   *)
WireValues == {<< >>, tV, <<Ch.a, Ch.nl, Ch.b>>, <<Ch.v, Ch.cr>>,
               <<Ch.astral>>}

RecSeqs(values) ==
    UNION {[1..n -> {Rec(tK, v) : v \in values}] : n \in 0..MaxRecs}

HomePath == DotDotBack \o DotDotBack \o tA

TreeArchives ==
    {BuildArchive(1, <<Ent(HomePath, <<Sec(tS, rs)>>)>>, st) :
        rs \in RecSeqs(WireValues), st \in {"neg", "pos"}}

TwoSections == <<Sec(tS, <<Rec(tK, tV)>>), Sec(tT, <<Rec(tK, tA)>>)>>

(* Two entries, at different places and at the same place. *)
TwoEntries == <<Ent(HomePath, TwoSections),
                Ent(DotDotBack \o DotDotBack \o tB, <<Sec(tS, << >>)>>)>>

SamePlace == <<Ent(HomePath, <<Sec(tS, <<Rec(tK, tV)>>)>>),
               Ent(DotDotBack \o tA, <<Sec(tT, <<Rec(tK, tA)>>)>>)>>

ManyArchives ==
    {BuildArchive(2, es, st) :
        es \in {TwoEntries, SamePlace}, st \in {"neg", "pos"}}

(* Two archives cut after n bytes, for every n. *)
CutArchives ==
    LET whole == {BuildArchive(1, <<Ent(tA, <<Sec(tS, <<Rec(tK, tV)>>)>>)>>,
                               "neg"),
                  BuildArchive(2, SamePlace, "neg")}
    IN  UNION {{SubSeq(w, 1, n) : n \in 0..Len(w)} : w \in whole}

(* Declared entry counts in and out of validate_coalesced's range. *)
CountArchives ==
    {BuildArchive(c, <<Ent(tA, << >>)>>, "neg") :
        c \in {-1, 0, 1, 10000, 10001}}
    \cup {PackInt(0), PackInt(-1), PackInt(1)}

(* Names of length zero, names of an odd number of bytes, surrogate units  *)
(* without their pair.                                                     *)
OddArchives ==
    LET entry == PackInt(1) \o BuildName(tA, "neg") \o PackInt(1)
        body == PackInt(1) \o BuildName(tK, "neg") \o BuildValue(tV, "neg")
        loneHigh == <<61, 216>>
    IN  { entry \o PackInt(0) \o <<0, 0>> \o body,
          entry \o PackInt(-1) \o <<0, 0>> \o body,
          entry \o BuildName(tS, "neg") \o PackInt(1)
                \o PackInt(0) \o <<0, 0>> \o BuildValue(tV, "neg"),
          BuildArchive(2, <<Ent(tA, <<Sec(tS, <<Rec(tK, tV)>>)>>)>>, "neg")
                \o PackInt(0) \o <<0, 0>> \o PackInt(0),
          entry \o PackInt(3) \o <<Ch.a, 0, Ch.b>> \o <<0, 0>> \o PackInt(0),
          entry \o BuildName(tS, "neg") \o PackInt(1)
                \o PackInt(1) \o <<Ch.k>> \o <<0, 0>> \o BuildValue(tV, "neg"),
          entry \o BuildName(tS, "neg") \o PackInt(1)
                \o BuildName(tK, "neg") \o PackInt(-2) \o loneHigh \o <<0, 0>>,
          PackInt(1) \o PackInt(2) \o loneHigh \o <<0, 0>> \o PackInt(0),
          PackInt(1) \o PackInt(3) \o <<Ch.a, 0, Ch.b>> \o <<0, 0>>
                \o PackInt(0) }

Archives == PathArchives \cup TreeArchives \cup ManyArchives
              \cup CutArchives \cup CountArchives \cup OddArchives

(* Documents: what unpack writes for a tree, with the pilcrow for an       *)
(* embedded newline, and texts only an editor writes.                      *)
RECURSIVE RenderRecords(_)
RenderRecords(recs) ==
    IF recs = << >> THEN << >>
    ELSE recs[1].key \o <<Ch.eq>> \o recs[1].value \o <<Ch.nl>>
           \o RenderRecords(Tail(recs))

RECURSIVE RenderDoc(_)
RenderDoc(secs) ==
    IF secs = << >> THEN << >>
    ELSE <<Ch.lb>> \o secs[1].name \o <<Ch.rb, Ch.nl>>
           \o RenderRecords(secs[1].records)
           \o (IF Len(secs) > 1 THEN <<Ch.nl>> ELSE << >>)
           \o RenderDoc(Tail(secs))

TextValues == {<< >>, tV, <<Ch.a, Ch.pil, Ch.b>>, <<Ch.pil>>,
               <<Ch.astral, Ch.pil>>}

At(segs) == [up |-> 0, segs |-> segs]

OneFile(place, text) == [f \in {place} |-> text]

TwoFiles(p1, t1, p2, t2) == [f \in {p1, p2} |-> IF f = p1 THEN t1 ELSE t2]

DocDirs ==
    {OneFile(At(<<tA>>), RenderDoc(<<Sec(tS, rs)>>)) :
        rs \in RecSeqs(TextValues)}
    \cup {OneFile(At(<<tA>>), RenderDoc(TwoSections)),
          OneFile(At(<<tB, tA>>), RenderDoc(TwoSections)),
          TwoFiles(At(<<tA>>), RenderDoc(TwoSections),
                   At(<<tB>>), RenderDoc(<<Sec(tS, <<Rec(tK, tV)>>)>>)),
          TwoFiles(At(<<tA>>), RenderDoc(<<Sec(tS, <<Rec(tK, tV)>>)>>),
                   At(<<tB, tA>>), RenderDoc(<<Sec(tT, << >>)>>)),
          OneFile(At(<<tA>>),
                  tK \o <<Ch.eq>> \o tV \o <<Ch.nl>>
                    \o RenderDoc(<<Sec(tS, <<Rec(tK, tA)>>)>>)
                    \o tB \o <<Ch.nl, Ch.nl>>),
          OneFile(At(<<tA>>),
                  <<Ch.lb, Ch.rb, Ch.nl, Ch.eq, Ch.v, Ch.nl>>),
          OneFile(At(<<tA>>), << >>)}

----------------------------------------------------------------------------
Init ==
    /\ \/ cmd = "unpack" /\ bin \in Archives /\ dir = EmptyDir
       \/ cmd = "repack" /\ bin = << >> /\ dir \in DocDirs
    /\ pc = "idle"
    /\ tool = NewTool
    /\ validated = NotValidated
    /\ pos = 0
    /\ file_index = 0 /\ sec_index = 0 /\ rec_index = 0
    /\ clean_path = << >>
    /\ out_file = NoPlace
    /\ input_files = << >>
    /\ rp_index = 0
    /\ run = NewRun
    /\ hist = << >>

Next ==
    \/ Validate
    \/ UnpackBegin
    \/ UnpackEntry
    \/ UnpackSection
    \/ UnpackRecord
    \/ UnpackSectionEnd
    \/ UnpackEntryEnd
    \/ UnpackEnd
    \/ RepackBegin
    \/ RepackFile
    \/ RepackEnd

Spec == Init /\ [][Next]_vars

----------------------------------------------------------------------------
(* What the properties below speak of. *)
IsUnpack(h) == h.op = "unpack"

Aborted(h) == h.status \in {"failed", "returned"}

(* A repack followed by an unpack of the archive it wrote. *)
RepackedThenUnpacked ==
    Len(hist) >= 2 /\ hist[1].op = "repack" /\ hist[2].op = "unpack"

AllRecords(trees) ==
    {<<i, j, l>> \in (1..Len(trees)) \X (1..(MaxRecs + 2)) \X (1..(MaxRecs + 2)) :
        /\ j <= Len(trees[i].sections)
        /\ l <= Len(trees[i].sections[j].records)}

ValueAt(trees, x) == trees[x[1]].sections[x[2]].records[x[3]].value

KeyAt(trees, x) == trees[x[1]].sections[x[2]].records[x[3]].key

NamesNonEmpty(trees) ==
    /\ \A i \in 1..Len(trees) : \A j \in 1..Len(trees[i].sections) :
          trees[i].sections[j].name # << >>
    /\ \A x \in AllRecords(trees) : KeyAt(trees, x) # << >>

(* The documents an unpack left, read as repack reads them, in the order   *)
(* of the places given.                                                    *)
DecodedAt(h, places) ==
    [i \in 1..Len(places) |->
        IF places[i] \in DOMAIN h.dir THEN ParseIni(h.dir[places[i]])
        ELSE << >>]

Parsed(trees) == [i \in 1..Len(trees) |-> trees[i].sections]

----------------------------------------------------------------------------
(* C1: an entry tree with non-empty paths, section names and keys that is  *)
(* repacked and then unpacked comes back as the same entries in the same   *)
(* order, each with the same sections and records, key and value text.     *)
(* Stated for the trees whose text is all in the basic plane, values empty *)
(* or not: the claim for every tree claims this as well.                   *)
Inv_C1_RoundTrip ==
    (/\ RepackedThenUnpacked
     /\ NamesNonEmpty(hist[1].run.trees)
     /\ \A x \in AllRecords(hist[1].run.trees) :
           \A n \in 1..Len(ValueAt(hist[1].run.trees, x)) :
               ValueAt(hist[1].run.trees, x)[n] < 65536) =>
        /\ hist[2].status = "done"
        /\ hist[2].run.completed = hist[1].run.order
        /\ DecodedAt(hist[2], hist[1].run.order) = Parsed(hist[1].run.trees)

(* C2: the path unpack joins under the output root and opens never starts  *)
(* with a separator or a ".." segment and never climbs above the root,     *)
(* and no document is written outside the output directory.                *)
Inv_C2_PathStaysInside ==
    /\ (pc \in {"section", "record"} /\ clean_path # << >>) =>
          /\ ~IsSep(clean_path[1])
          /\ Segments(clean_path)[1] # <<Ch.dot, Ch.dot>>
          /\ ~ClimbsAbove(Segments(clean_path), 0)
    /\ \A f \in DOMAIN dir : f.up = 0

(* C3: validation accepts only a declared count in 1..10000, and rejects   *)
(* any other count having read nothing past the count's 4 bytes.           *)
Inv_C3_CountChecked ==
    \A i \in 1..Len(hist) :
        (IsUnpack(hist[i]) /\ hist[i].validated.pos >= 4) =>
           /\ hist[i].validated.verdict = "accepted"
                 => hist[i].tool.files \in 1..10000
           /\ hist[i].tool.files \notin 1..10000
                 => /\ hist[i].validated.verdict = "rejected"
                    /\ hist[i].validated.pos = 4

(* C4: an unpack during which the stream ended before a field it expected  *)
(* (an integer, a name's bytes, a value unit, a terminator) does not       *)
(* complete successfully.  (The claim says more: that it ends in the       *)
(* truncated-stream error.)                                                *)
Inv_C4_TruncationIsError ==
    \A i \in 1..Len(hist) :
        (IsUnpack(hist[i]) /\ hist[i].run.short) => hist[i].status # "done"

(* C5: an unpack that met a name (entry path, section name, record key)    *)
(* whose length field decodes to zero aborts with an error.                *)
Inv_C5_EmptyNameAborts ==
    \A i \in 1..Len(hist) :
        (IsUnpack(hist[i]) /\ hist[i].run.zero_name) => Aborted(hist[i])

(* C6: documents whose values are all non-empty, one at least with a       *)
(* pilcrow, repacked and unpacked: every value comes back as it was, the   *)
(* pilcrows where they were.                                               *)
Inv_C6_PilcrowRoundTrip ==
    (/\ RepackedThenUnpacked
     /\ \A x \in AllRecords(hist[1].run.trees) :
           ValueAt(hist[1].run.trees, x) # << >>
     /\ \E x \in AllRecords(hist[1].run.trees) :
           IndexOf(ValueAt(hist[1].run.trees, x), Ch.nl, 1) # 0) =>
        /\ hist[2].status = "done"
        /\ LET back == [i \in 1..Len(hist[1].run.order) |->
                          [sections |-> DecodedAt(hist[2], hist[1].run.order)[i]]]
           IN  /\ AllRecords(back) = AllRecords(hist[1].run.trees)
               /\ \A x \in AllRecords(back) :
                     ValueAt(back, x) = ValueAt(hist[1].run.trees, x)

(* C7: a valid archive (a count in 1..10000, accepted, unpacked to the end  *)
(* with no read short and no empty name, each entry at a place of its      *)
(* own), unpacked, repacked and unpacked again, gives the documents of     *)
(* the first unpack: the archive repack wrote has the content of the       *)
(* first.                                                                  *)
Inv_C7_Reencode ==
    (/\ Len(hist) >= 3
     /\ IsUnpack(hist[1]) /\ hist[1].status = "done"
     /\ hist[1].validated.verdict = "accepted"
     /\ hist[1].tool.files \in 1..10000
     /\ ~hist[1].run.short /\ ~hist[1].run.zero_name
     /\ \A f \in DOMAIN hist[1].dir : f.up = 0
     /\ Cardinality(DOMAIN hist[1].dir) = Len(hist[1].run.completed)) =>
        /\ hist[3].status = "done"
        /\ DOMAIN hist[3].dir = DOMAIN hist[1].dir
        /\ \A f \in DOMAIN hist[1].dir :
              ParseIni(hist[3].dir[f]) = ParseIni(hist[1].dir[f])

(* C8: an entry path of k leading "..\" or "../" segments before a         *)
(* relative path is normalised to that relative path with "/" turned into  *)
(* "\": the k segments are removed, nothing else, and no separator leads.  *)
Thm_C8_StripsLeadingDotDot ==
    pc \in {"section", "record"} =>
        \A pre \in AllPrefixes : \A rel \in RelPaths :
            tool.fullpath = pre \o rel =>
                /\ clean_path = Replace(rel, Ch.sl, Ch.bs)
                /\ ~IsSep(clean_path[1])

Witness_C8 ==
    /\ pc = "section"
    /\ tool.fullpath = DotDotBack \o DotDotSlash \o <<Ch.a, Ch.sl, Ch.b>>
    /\ clean_path = <<Ch.a, Ch.bs, Ch.b>>

(* C9: no unpack ends in a text-decoding error, whatever bytes it read as  *)
(* a path, a section name, a key or a value unit.  Stated for the streams  *)
(* that had every byte their fields asked for.                             *)
Inv_C9_NoDecodeError ==
    \A i \in 1..Len(hist) :
        (IsUnpack(hist[i]) /\ ~hist[i].run.short) =>
            hist[i].err # "UnicodeDecodeError"

(* C10: when unpack aborts in an entry, the documents of the entries it    *)
(* had finished are as they were when that entry began.                    *)
Inv_C10_SiblingsKept ==
    \A i \in 1..Len(hist) :
        (IsUnpack(hist[i]) /\ Aborted(hist[i])) =>
            \A n \in 1..Len(hist[i].run.completed) :
                LET place == hist[i].run.completed[n]
                IN  /\ place \in DOMAIN hist[i].dir
                    /\ place \in DOMAIN hist[i].run.entry_dir
                    /\ hist[i].dir[place] = hist[i].run.entry_dir[place]

====
